---- MODULE Spec2Model ----
(***************************************************************************)
(* Debt calculator (src/src/calculator/calculator.tsx).                    *)
(*                                                                         *)
(* Two state machines over one set of variables:                           *)
(*   Spec      the loop of computeSchedule, one iteration per step, on     *)
(*             inputs drawn from bounded sets;                             *)
(*   FormSpec  the Calculator component: its four useState cells, the      *)
(*             useMemo result and the change handlers.                     *)
(*                                                                         *)
(* Numbers.  A JavaScript number x is represented by the integer x*Scale   *)
(* (fixed point, hundredths).  The inputs are chosen so that every         *)
(* product and quotient the code forms is exact in this representation     *)
(* (whole amounts, annual rates that are multiples of 0.12), as it is in   *)
(* IEEE doubles for the same inputs.  Array lengths, indices and month     *)
(* numbers are plain integers.  Text is a sequence of UTF-16 code units    *)
(* (the unit a JavaScript regular expression without the u flag matches):  *)
(* 48..57 are the digits "0".."9", 45 is "-", 46 is ".", 32 the blank.     *)
(* null is the empty sequence, a present value v is <<v>>.                 *)
(***************************************************************************)
EXTENDS Integers, Sequences, FiniteSets, TLC

VARIABLES
    \* ---- computeSchedule: arguments and locals
    args,           \* [total, annualRate, payments]
    i,              \* loop index (0-based, as in the code)
    debt,
    schedule,       \* sequence of Row
    totalInterest,
    payoffMonth,    \* Null or <<month>>
    pc,             \* "loop" | "return" | "done" | "idle"
    ret,            \* the returned object once pc = "done"
    \* ---- Calculator component state
    total,          \* text
    annualRatePct,  \* text
    months,         \* text
    payments,       \* sequence of numbers
    memo,           \* the useMemo result of the last render
    lastOp          \* history: the last handler run, its arguments, payments before it

engineVars == <<args, i, debt, schedule, totalInterest, payoffMonth, pc, ret>>
formVars == <<total, annualRatePct, months, payments, memo, lastOp>>
vars == <<args, i, debt, schedule, totalInterest, payoffMonth, pc, ret,
          total, annualRatePct, months, payments, memo, lastOp>>

----------------------------------------------------------------------------
\* Bounds of the model.

\* longest payments array
MaxLen == 3
\* longest text typed into the loan-amount and payment fields
MaxRawLen == 1

----------------------------------------------------------------------------
\* Number representation.

Scale == 100

Null == <<>>
Some(v) == <<v>>

Min(a, b) == IF a < b THEN a ELSE b
Max(a, b) == IF a > b THEN a ELSE b

\* Math.floor of a number, as a plain integer (\div rounds towards minus infinity)
Floor(n) == n \div Scale

----------------------------------------------------------------------------
\* computeSchedule, statement by statement.

\* line 24: const monthlyRate = annualRate / 12
MonthlyRate_annual(annualRate) == annualRate
MonthlyRate(annualRate) == annualRate \div 12

\* line 34: const interest = startDebt * monthlyRate
Interest_twelvefold(startDebt, monthlyRate) == (startDebt * monthlyRate * 12) \div Scale
Interest(startDebt, monthlyRate) == (startDebt * monthlyRate) \div Scale

\* line 37: const paymentPlanned = payments[i] > 0 ? payments[i] : 0
PaymentPlanned_noClamp(p) == p
PaymentPlanned(p) == IF p > 0 THEN p ELSE 0

\* line 38: const paymentApplied = Math.min(paymentPlanned, startDebt)
PaymentApplied_noMin(paymentPlanned, startDebt) == paymentPlanned
PaymentApplied(paymentPlanned, startDebt) == Min(paymentPlanned, startDebt)

\* line 39: const endDebt = Math.max(startDebt - paymentApplied, 0)
EndDebt(startDebt, paymentApplied) == Max(startDebt - paymentApplied, 0)

\* line 43: if (debt === 0 && payoffMonth === null) payoffMonth = month
NextPayoffMonth_index(d, pm, month) == IF d = 0 /\ pm = Null THEN Some(month - 1) ELSE pm
NextPayoffMonth(d, pm, month) == IF d = 0 /\ pm = Null THEN Some(month) ELSE pm

\* lines 30-31: the loop runs while i < payments.length and not (debt <= 0)
LoopContinues_noBreak(st, pays) == st.i < Len(pays)
LoopContinues(st, pays) == st.i < Len(pays) /\ ~(st.debt <= 0)

\* lines 25-28: the locals before the loop
InitLocals(tot) ==
    [i |-> 0, debt |-> tot, schedule |-> <<>>, totalInterest |-> 0, payoffMonth |-> Null]

\* lines 32-43 and the i++ of line 30: one iteration
LoopBody_compound(st, pays, monthlyRate) ==
    LET month == st.i + 1
        startDebt == st.debt
        interest == Interest(startDebt, monthlyRate)
        paymentPlanned == PaymentPlanned(pays[st.i + 1])
        paymentApplied == PaymentApplied(paymentPlanned, startDebt)
        endDebt == EndDebt(startDebt + interest, paymentApplied)
    IN  [i |-> st.i + 1,
         debt |-> endDebt,
         schedule |-> Append(st.schedule,
                        [month |-> month, startDebt |-> startDebt, interest |-> interest,
                         paymentPlanned |-> paymentPlanned,
                         paymentApplied |-> paymentApplied, endDebt |-> endDebt]),
         totalInterest |-> st.totalInterest + interest,
         payoffMonth |-> NextPayoffMonth(endDebt, st.payoffMonth, month)]
LoopBody(st, pays, monthlyRate) ==
    LET month == st.i + 1
        startDebt == st.debt
        interest == Interest(startDebt, monthlyRate)
        paymentPlanned == PaymentPlanned(pays[st.i + 1])
        paymentApplied == PaymentApplied(paymentPlanned, startDebt)
        endDebt == EndDebt(startDebt, paymentApplied)
    IN  [i |-> st.i + 1,
         debt |-> endDebt,
         schedule |-> Append(st.schedule,
                        [month |-> month, startDebt |-> startDebt, interest |-> interest,
                         paymentPlanned |-> paymentPlanned,
                         paymentApplied |-> paymentApplied, endDebt |-> endDebt]),
         totalInterest |-> st.totalInterest + interest,
         payoffMonth |-> NextPayoffMonth(endDebt, st.payoffMonth, month)]

\* line 46: return {schedule, totalInterest, payoffMonth, remainingDebt: debt}
ReturnValue(st) ==
    [schedule |-> st.schedule, totalInterest |-> st.totalInterest,
     payoffMonth |-> st.payoffMonth, remainingDebt |-> st.debt]

RECURSIVE RunLoop(_, _, _)
RunLoop(st, pays, monthlyRate) ==
    IF LoopContinues(st, pays)
    THEN RunLoop(LoopBody(st, pays, monthlyRate), pays, monthlyRate)
    ELSE st

\* lines 18-47: the whole function
computeSchedule(tot, annualRate, pays) ==
    ReturnValue(RunLoop(InitLocals(tot), pays, MonthlyRate(annualRate)))

\* line 58: the result object used while the form is incomplete
NoResult == [schedule |-> <<>>, totalInterest |-> 0, payoffMonth |-> Null, remainingDebt |-> 0]

----------------------------------------------------------------------------
\* Text and its conversions.

\* \d: the code units of "0".."9"
Digits == 48..57

\* \s: tab, line feed, vertical tab, form feed, carriage return, blank,
\* no-break space, ogham space mark, en quad .. hair space, line separator,
\* paragraph separator, narrow no-break space, medium mathematical space,
\* ideographic space, byte order mark
Whitespace ==
    (9..13) \cup {32, 160, 5760} \cup (8192..8202) \cup {8232, 8233, 8239, 8287, 12288, 65279}

IsDigit(c) == c \in Digits
NotSpace(c) == c \notin Whitespace

\* s.replace(/\s/g, "")
StripWhitespace(s) == SelectSeq(s, NotSpace)
\* s.replace(/\D/g, "")
StripNonDigits(s) == SelectSeq(s, IsDigit)

RECURSIVE DigitsValue(_)
DigitsValue(ds) ==
    IF ds = <<>> THEN 0
    ELSE DigitsValue(SubSeq(ds, 1, Len(ds) - 1)) * 10 + (ds[Len(ds)] - 48)

RECURSIVE Pow10(_)
Pow10(k) == IF k = 0 THEN 1 ELSE 10 * Pow10(k - 1)

\* Number(s) for decimal text [-]digits[.digits] with at most two decimals;
\* Number("") is 0
Number(s) ==
    IF s = <<>> THEN 0
    ELSE LET neg == s[1] = 45
             body == IF neg THEN SubSeq(s, 2, Len(s)) ELSE s
             dots == {k \in 1..Len(body) : body[k] = 46}
             dot == IF dots = {} THEN Len(body) + 1 ELSE CHOOSE k \in dots : TRUE
             whole == SubSeq(body, 1, dot - 1)
             frac == SubSeq(body, dot + 1, Len(body))
             val == DigitsValue(whole) * Scale
                      + DigitsValue(frac) * (Scale \div Pow10(Len(frac)))
         IN  IF neg THEN 0 - val ELSE val

\* String(m) for a positive integer m
RECURSIVE String(_)
String(m) ==
    IF m < 10 THEN <<48 + m>>
    ELSE String(m \div 10) \o <<48 + (m % 10)>>

----------------------------------------------------------------------------
\* The Calculator component's pure parts.

\* line 55: const valid = total && annualRatePct && months
Valid(tot, rate, mon) == tot # <<>> /\ rate # <<>> /\ mon # <<>>

\* lines 57-60: the useMemo body
UseMemo(tot, rate, mon, pays) ==
    IF ~Valid(tot, rate, mon) THEN NoResult
    ELSE computeSchedule(Number(tot), Number(rate) \div 100, pays)

\* lines 63-67: the updater of setPaymentAt, for an index inside the array
SetPaymentAt_push(prev, index, value) == Append(prev, value)
SetPaymentAt(prev, index, value) == [prev EXCEPT ![index + 1] = value]

\* line 77: const m = Math.max(1, Math.floor(n))
MonthsClamp(n) == Max(1, Floor(n))

\* lines 79-87: the updater of setMonthsCount
ResizePayments_growOnly(prev, m) ==
    IF m > Len(prev) THEN prev \o [k \in 1..(m - Len(prev)) |-> 0] ELSE prev
ResizePayments(prev, m) ==
    IF m > Len(prev) THEN prev \o [k \in 1..(m - Len(prev)) |-> 0]
    ELSE IF m < Len(prev) THEN SubSeq(prev, 1, m)
    ELSE prev

\* lines 91-92: the digits of the typed loan amount
TotalDigits(raw) == StripNonDigits(StripWhitespace(raw))

\* lines 106-108: parseMoneyInput
ParseMoneyInput(s) == Number(StripNonDigits(StripWhitespace(s)))

----------------------------------------------------------------------------
\* Initial state of the component (lines 50-53) and idle engine.

InitialForm ==
    /\ total = <<>>
    /\ annualRatePct = <<>>
    /\ months = <<>>
    /\ payments = <<>>
    /\ memo = NoResult
    /\ lastOp = [op |-> "none", arg |-> <<>>, prev |-> <<>>]

----------------------------------------------------------------------------
\* Spec: computeSchedule run step by step.

\* amounts 0, 100, 1200 and a negative one; in hundredths
Totals == {-100 * Scale, 0, 100 * Scale, 1200 * Scale}
\* annual rates -0.12, 0, 0.12, 0.24
AnnualRates == {-12, 0, 12, 24}
\* planned payments, one of them negative, one larger than every amount
PaymentValues == {-50 * Scale, 0, 50 * Scale, 100 * Scale, 112 * Scale, 1500 * Scale}

SeqsUpTo(S, n) == UNION {[1..k -> S] : k \in 0..n}

\* the twelve equal payments of the reference scenario
TwelvePayments == [k \in 1..12 |-> 112 * Scale]

PaymentPlans == SeqsUpTo(PaymentValues, MaxLen) \cup {TwelvePayments}

locals == [i |-> i, debt |-> debt, schedule |-> schedule,
           totalInterest |-> totalInterest, payoffMonth |-> payoffMonth]

SetLocals(st) ==
    /\ i' = st.i
    /\ debt' = st.debt
    /\ schedule' = st.schedule
    /\ totalInterest' = st.totalInterest
    /\ payoffMonth' = st.payoffMonth

Init ==
    /\ args \in [total : Totals, annualRate : AnnualRates, payments : PaymentPlans]
    /\ i = InitLocals(args.total).i
    /\ debt = InitLocals(args.total).debt
    /\ schedule = InitLocals(args.total).schedule
    /\ totalInterest = InitLocals(args.total).totalInterest
    /\ payoffMonth = InitLocals(args.total).payoffMonth
    /\ pc = "loop"
    /\ ret = NoResult
    /\ InitialForm

\* lines 30-43: one iteration of the for loop
Iterate ==
    /\ pc = "loop"
    /\ LoopContinues(locals, args.payments)
    /\ SetLocals(LoopBody(locals, args.payments, MonthlyRate(args.annualRate)))
    /\ UNCHANGED <<args, pc, ret>>
    /\ UNCHANGED formVars

\* line 31: if (debt <= 0) break
Break ==
    /\ pc = "loop"
    /\ i < Len(args.payments)
    /\ ~LoopContinues(locals, args.payments)
    /\ pc' = "return"
    /\ UNCHANGED <<args, i, debt, schedule, totalInterest, payoffMonth, ret>>
    /\ UNCHANGED formVars

\* line 30: i < payments.length is false
Exhausted ==
    /\ pc = "loop"
    /\ ~(i < Len(args.payments))
    /\ ~LoopContinues(locals, args.payments)
    /\ pc' = "return"
    /\ UNCHANGED <<args, i, debt, schedule, totalInterest, payoffMonth, ret>>
    /\ UNCHANGED formVars

\* line 46
Return ==
    /\ pc = "return"
    /\ ret' = ReturnValue(locals)
    /\ pc' = "done"
    /\ UNCHANGED <<args, i, debt, schedule, totalInterest, payoffMonth>>
    /\ UNCHANGED formVars

Next == Iterate \/ Break \/ Exhausted \/ Return

Spec == Init /\ [][Next]_vars

\* the step machine and the function agree
StepsAgreeWithFunction ==
    pc = "done" => ret = computeSchedule(args.total, args.annualRate, args.payments)

----------------------------------------------------------------------------
\* FormSpec: the Calculator component.

\* characters typed into the text fields: "1", a blank, a no-break space, "x"
RawChars == {49, 32, 160, 120}
RawTexts == SeqsUpTo(RawChars, MaxRawLen)

\* values of the rate field (type=number): "", "0", "12", "24"
RateTexts == {<<>>, <<48>>, <<49, 50>>, <<50, 52>>}

\* values of the month-count field (type=number): "", "0", "-1", "2.5" and 1..MaxLen
MonthTexts ==
    {<<>>, <<48>>, <<45, 49>>, <<50, 46, 53>>} \cup {String(m) : m \in 1..MaxLen}

InitForm ==
    /\ InitialForm
    /\ args = [total |-> 0, annualRate |-> 0, payments |-> <<>>]
    /\ i = 0
    /\ debt = 0
    /\ schedule = <<>>
    /\ totalInterest = 0
    /\ payoffMonth = Null
    /\ pc = "idle"
    /\ ret = NoResult

\* lines 90-94: handleTotalChange, then the render
HandleTotalChange(raw) ==
    /\ pc = "idle"
    /\ total' = TotalDigits(raw)
    /\ UNCHANGED <<annualRatePct, months, payments>>
    /\ memo' = UseMemo(total', annualRatePct', months', payments')
    /\ lastOp' = [op |-> "handleTotalChange", arg |-> <<raw>>, prev |-> payments]
    /\ UNCHANGED engineVars

\* line 133: onChange of the rate field, then the render
RateChange(val) ==
    /\ pc = "idle"
    /\ annualRatePct' = val
    /\ UNCHANGED <<total, months, payments>>
    /\ memo' = UseMemo(total', annualRatePct', months', payments')
    /\ lastOp' = [op |-> "setAnnualRatePct", arg |-> <<val>>, prev |-> payments]
    /\ UNCHANGED engineVars

\* lines 70-88: setMonthsCount(n), n = Null or <<number>>, then the render
setMonthsCount(n) ==
    /\ pc = "idle"
    /\ IF n = Null
       THEN /\ months' = <<>>
            /\ payments' = <<>>
       ELSE /\ months' = String(MonthsClamp(n[1]))
            /\ payments' = ResizePayments(payments, MonthsClamp(n[1]))
    /\ UNCHANGED <<total, annualRatePct>>
    /\ memo' = UseMemo(total', annualRatePct', months', payments')
    /\ lastOp' = [op |-> "setMonthsCount", arg |-> n, prev |-> payments]
    /\ UNCHANGED engineVars

\* lines 143-146: onChange of the month-count field
MonthsChange(val) == setMonthsCount(IF val = <<>> THEN Null ELSE Some(Number(val)))

\* lines 62-68: setPaymentAt(index, value), then the render
setPaymentAt(index, value) ==
    /\ pc = "idle"
    /\ payments' = SetPaymentAt(payments, index, value)
    /\ UNCHANGED <<total, annualRatePct, months>>
    /\ memo' = UseMemo(total', annualRatePct', months', payments')
    /\ lastOp' = [op |-> "setPaymentAt", arg |-> <<index, value>>, prev |-> payments]
    /\ UNCHANGED engineVars

\* lines 150, 165-179: onChange of the payment field of row index; the rows
\* exist only while the form is valid
PaymentChange(index, raw) ==
    /\ Valid(total, annualRatePct, months)
    /\ index \in 0..(Len(payments) - 1)
    /\ setPaymentAt(index, ParseMoneyInput(raw))

NextForm ==
    \/ \E raw \in RawTexts : HandleTotalChange(raw)
    \/ \E val \in RateTexts : RateChange(val)
    \/ \E val \in MonthTexts : MonthsChange(val)
    \/ \E index \in 0..(MaxLen - 1), raw \in RawTexts : PaymentChange(index, raw)

FormSpec == InitForm /\ [][NextForm]_vars

\* the table and summary always show the schedule of the current fields
MemoIsCurrent == pc = "idle" => memo = UseMemo(total, annualRatePct, months, payments)

----------------------------------------------------------------------------
\* Properties of the Calculator component (checked under FormSpec).

\* C7: setMonthsCount(n) with a number n leaves exactly m = max(1, floor(n))
\* payments: the entries below min(old length, m) keep their values, those
\* beyond m are dropped, and the new ones are 0.
C7_Resize ==
    (lastOp.op = "setMonthsCount" /\ lastOp.arg # Null) =>
        LET n == lastOp.arg[1]
            m == IF n \div Scale > 1 THEN n \div Scale ELSE 1
            old == lastOp.prev
        IN  /\ Len(payments) = m
            /\ \A k \in 1..Len(payments) :
                  payments[k] = (IF k <= Len(old) THEN old[k] ELSE 0)
C7_Witness ==
    /\ lastOp.op = "setMonthsCount"
    /\ lastOp.arg = Some(2 * Scale + 50)
    /\ Len(lastOp.prev) = 3
    /\ lastOp.prev[1] > 0
    /\ lastOp.prev[3] > 0
    /\ payments = SubSeq(lastOp.prev, 1, 2)
C7_WitnessGrow ==
    /\ lastOp.op = "setMonthsCount"
    /\ lastOp.arg = Some(3 * Scale)
    /\ Len(lastOp.prev) = 1
    /\ lastOp.prev[1] > 0
    /\ payments = <<lastOp.prev[1], 0, 0>>
C7_WitnessClamp ==
    /\ lastOp.op = "setMonthsCount"
    /\ lastOp.arg = Some(0 - Scale)
    /\ Len(lastOp.prev) = 2
    /\ Len(payments) = 1

\* C10: in every reachable state of the form either months and payments are
\* both empty, or months is a whole number >= 1 and payments has that many
\* entries; setPaymentAt(i, v) changes entry i only; editing the loan amount or
\* the rate leaves payments as it was.
C10_FormInvariant ==
    /\ \/ months = <<>> /\ payments = <<>>
       \/ /\ months # <<>>
          /\ Number(months) >= Scale
          /\ Number(months) % Scale = 0
          /\ Len(payments) * Scale = Number(months)
    /\ lastOp.op = "setPaymentAt" =>
          /\ Len(payments) = Len(lastOp.prev)
          /\ \A k \in 1..Len(payments) :
                payments[k] = (IF k = lastOp.arg[1] + 1 THEN lastOp.arg[2] ELSE lastOp.prev[k])
    /\ lastOp.op \in {"handleTotalChange", "setAnnualRatePct"} => payments = lastOp.prev
C10_Witness ==
    /\ lastOp.op = "setPaymentAt"
    /\ lastOp.arg[1] = 1
    /\ Len(payments) = 3
    /\ months = <<51>>
    /\ payments[1] > 0
    /\ payments[2] > 0
    /\ payments[2] # lastOp.prev[2]

----------------------------------------------------------------------------
\* Properties of computeSchedule (checked under Spec).

Done == pc = "done"

RECURSIVE SumField(_, _)
SumField(rows, f) ==
    IF rows = <<>> THEN 0 ELSE SumField(SubSeq(rows, 1, Len(rows) - 1), f) + rows[Len(rows)][f]

AllZero(pays) == \A k \in 1..Len(pays) : pays[k] = 0

\* the ledger columns that describe the debt
DebtColumns(rows) ==
    [k \in 1..Len(rows) |-> <<rows[k].startDebt, rows[k].paymentApplied, rows[k].endDebt>>]

\* C1: in every row produced, paymentApplied is the smaller of paymentPlanned
\* and startDebt, endDebt is startDebt - paymentApplied but not below zero, the
\* first row starts at the principal and every later row starts where the
\* previous one ended.  Holds of the rows built so far and of the rows returned.
RowsAreChained(rows) ==
    \A k \in 1..Len(rows) :
        /\ rows[k].paymentApplied =
              (IF rows[k].paymentPlanned < rows[k].startDebt
               THEN rows[k].paymentPlanned ELSE rows[k].startDebt)
        /\ rows[k].endDebt =
              (IF rows[k].startDebt - rows[k].paymentApplied > 0
               THEN rows[k].startDebt - rows[k].paymentApplied ELSE 0)
        /\ (k = 1 => rows[k].startDebt = args.total)
        /\ (k > 1 => rows[k].startDebt = rows[k - 1].endDebt)
C1_RowInvariant ==
    /\ RowsAreChained(schedule)
    /\ (Done => RowsAreChained(ret.schedule))
C1_Witness ==
    /\ Done
    /\ Len(ret.schedule) >= 2
    /\ \E k \in 1..Len(ret.schedule) :
          /\ k > 1
          /\ ret.schedule[k].paymentPlanned > ret.schedule[k].startDebt
          /\ ret.schedule[k].paymentApplied = ret.schedule[k].startDebt

\* the debt grown by each month's interest, month after month
RECURSIVE Compound(_, _, _)
Compound(principal, monthlyRate, n) ==
    IF n = 0 THEN principal
    ELSE LET before == Compound(principal, monthlyRate, n - 1)
         IN  before + (before * monthlyRate) \div Scale

\* C2 as stated: with all-zero payments the returned remainingDebt is the
\* principal grown by (1 + monthlyRate) once per month, and payoffMonth is absent.
C2_Original ==
    (Done /\ AllZero(args.payments)) =>
        /\ ret.remainingDebt =
              Compound(args.total, args.annualRate \div 12, Len(args.payments))
        /\ ret.payoffMonth = Null

\* C2 as amended: with all-zero payments the returned remainingDebt is the
\* principal itself, whatever the rate and the number of months (interest is
\* reported per row but never added to the debt), and payoffMonth is absent.
C2_ZeroPaymentsKeepPrincipal ==
    (Done /\ AllZero(args.payments)) =>
        /\ ret.remainingDebt = args.total
        /\ ret.payoffMonth = Null
        /\ \A k \in 1..Len(ret.schedule) : ret.schedule[k].endDebt = args.total
C2_Witness ==
    /\ Done
    /\ AllZero(args.payments)
    /\ Len(args.payments) >= 2
    /\ Len(ret.schedule) = Len(args.payments)
    /\ args.annualRate > 0
    /\ args.total > 0
    /\ ret.totalInterest > 0
    /\ ret.remainingDebt = args.total

ReferenceScenario ==
    /\ args.total = 1200 * Scale
    /\ args.annualRate = 12
    /\ args.payments = TwelvePayments
    /\ Len(schedule) >= 1

\* C3 as stated: principal 1200, annual rate 0.12, twelve payments of 112: the
\* first row has month 1, startDebt 1200, interest 12, paymentApplied 112 and
\* endDebt 1100.
C3_Original ==
    ReferenceScenario =>
        /\ schedule[1].month = 1
        /\ schedule[1].startDebt = 1200 * Scale
        /\ schedule[1].interest = 12 * Scale
        /\ schedule[1].paymentApplied = 112 * Scale
        /\ schedule[1].endDebt = 1100 * Scale

\* C3 as amended: the same first row, with endDebt 1088 (= 1200 - 112; the
\* month's interest of 12 is not part of the balance carried forward).
C3_FirstRow ==
    ReferenceScenario =>
        /\ schedule[1].month = 1
        /\ schedule[1].startDebt = 1200 * Scale
        /\ schedule[1].interest = 12 * Scale
        /\ schedule[1].paymentApplied = 112 * Scale
        /\ schedule[1].endDebt = 1088 * Scale
        /\ (Done => ret.schedule[1] = schedule[1])
C3_Witness ==
    /\ Done
    /\ ReferenceScenario
    /\ Len(ret.schedule) = 11
    /\ ret.schedule[1].endDebt = 1088 * Scale

ZeroRows(rows) == {k \in 1..Len(rows) : rows[k].endDebt = 0}
FirstOf(S) == CHOOSE k \in S : \A j \in S : k <= j

\* C4: payoffMonth is the month of the first row whose endDebt is zero, and
\* null when there is none; at the first month whose planned payment covers
\* that month's (positive) startDebt, paymentApplied is exactly startDebt and
\* payoffMonth is that month.
C4_PayoffMonth ==
    /\ payoffMonth =
          (IF ZeroRows(schedule) = {} THEN Null
           ELSE Some(schedule[FirstOf(ZeroRows(schedule))].month))
    /\ Done =>
          /\ ret.payoffMonth =
                (IF ZeroRows(ret.schedule) = {} THEN Null
                 ELSE Some(ret.schedule[FirstOf(ZeroRows(ret.schedule))].month))
          /\ \A k \in 1..Len(ret.schedule) :
                (/\ ret.schedule[k].startDebt > 0
                 /\ args.payments[k] >= ret.schedule[k].startDebt
                 /\ \A j \in 1..(k - 1) : args.payments[j] < ret.schedule[j].startDebt)
                => /\ ret.schedule[k].paymentApplied = ret.schedule[k].startDebt
                   /\ ret.payoffMonth = Some(k)
C4_Witness ==
    /\ Done
    /\ ret.payoffMonth = Some(3)
    /\ args.payments[3] > ret.schedule[3].startDebt
    /\ ret.schedule[3].endDebt = 0

\* C5: there are never more rows than payments, rows are numbered 1, 2, ..., k,
\* no row follows a row whose endDebt is zero, no row starts with a debt <= 0,
\* and a principal <= 0 returns no rows and remainingDebt = principal.
C5_LoopStops ==
    /\ Len(schedule) <= Len(args.payments)
    /\ \A k \in 1..Len(schedule) :
          /\ schedule[k].month = k
          /\ schedule[k].startDebt > 0
          /\ (schedule[k].endDebt = 0 => k = Len(schedule))
    /\ Done =>
          /\ ret.schedule = schedule
          /\ (args.total <= 0 => ret.schedule = <<>> /\ ret.remainingDebt = args.total)
C5_Witness ==
    /\ Done
    /\ Len(ret.schedule) = 2
    /\ Len(args.payments) = 3
    /\ ret.schedule[2].endDebt = 0
C5_WitnessNoDebt ==
    /\ Done
    /\ args.total < 0
    /\ Len(args.payments) >= 1
    /\ ret.schedule = <<>>

\* C6: paymentPlanned is payments[i] clamped at zero, so a negative entry never
\* raises the debt: 0 <= endDebt <= startDebt in every row, and remainingDebt
\* <= principal when principal >= 0.
C6_NegativeClamped ==
    /\ \A k \in 1..Len(schedule) :
          /\ schedule[k].paymentPlanned =
                (IF args.payments[k] > 0 THEN args.payments[k] ELSE 0)
          /\ 0 <= schedule[k].endDebt
          /\ schedule[k].endDebt <= schedule[k].startDebt
    /\ (Done /\ args.total >= 0) => ret.remainingDebt <= args.total
C6_Witness ==
    /\ Done
    /\ \E k \in 1..Len(ret.schedule) :
          /\ args.payments[k] < 0
          /\ ret.schedule[k].paymentPlanned = 0
          /\ ret.schedule[k].endDebt = ret.schedule[k].startDebt

\* C8: every row's interest is startDebt * (annualRate / 12), taken on the debt
\* before the payment (the payoff month included), and totalInterest is the sum
\* of the interest of exactly the rows returned.
C8_Interest ==
    /\ \A k \in 1..Len(schedule) :
          schedule[k].interest * Scale * 12 = schedule[k].startDebt * args.annualRate
    /\ totalInterest = SumField(schedule, "interest")
    /\ Done => ret.totalInterest = SumField(ret.schedule, "interest")
C8_Witness ==
    /\ Done
    /\ Len(ret.schedule) >= 2
    /\ ret.payoffMonth = Some(Len(ret.schedule))
    /\ ret.schedule[Len(ret.schedule)].interest > 0
    /\ ret.totalInterest > ret.schedule[Len(ret.schedule)].interest

\* C9: interest is never added to the debt: for principal >= 0 the principal
\* is the sum of the payments applied plus the remaining debt, and the debt
\* columns and remainingDebt are the same for every annual rate.
C9_InterestNotCapitalised ==
    /\ args.total >= 0 => args.total = SumField(schedule, "paymentApplied") + debt
    /\ (Done /\ args.total >= 0) =>
          /\ args.total = SumField(ret.schedule, "paymentApplied") + ret.remainingDebt
          /\ \A r \in AnnualRates :
                LET other == computeSchedule(args.total, r, args.payments)
                IN  /\ other.remainingDebt = ret.remainingDebt
                    /\ DebtColumns(other.schedule) = DebtColumns(ret.schedule)
C9_Witness ==
    /\ Done
    /\ args.total > 0
    /\ args.annualRate > 0
    /\ Len(ret.schedule) >= 2
    /\ ret.totalInterest > 0
    /\ ret.remainingDebt > 0
    /\ SumField(ret.schedule, "paymentApplied") > 0

====
